---- MODULE Spec2Model ----
(***************************************************************************)
(* Verification model of the style-synthesis service.                      *)
(*                                                                         *)
(*   models/feature_extractor.py   VGG19FeatureExtractor                   *)
(*   models/style_transfer.py      StyleTransfer                           *)
(*   api/services/transform_service.py  TransformationService              *)
(*                                                                         *)
(* Floating-point values are carried as pairs <<tag, n>>: a finite number  *)
(* <<"fin", n>>, the not-a-number <<"nan", 0>>, the infinities             *)
(* <<"pinf", 0>> and <<"ninf", 0>>, and Python's None <<"none", 0>>.       *)
(* An image is a record [dim, px]: its spatial size and one intensity.     *)
(* The pretrained network and autograd live outside the repository: the    *)
(* activation of a layer is the stand-in Activation, and the gradient the  *)
(* backward pass leaves on the canvas is an input of every step.           *)
(***************************************************************************)
EXTENDS Integers, Sequences, FiniteSets, TLC

\* ------------------------------------------------------------------ bounds
MaxSteps == 3

MaxForwardCalls == 2

\* --------------------------------------------------------- float stand-ins
None == <<"none", 0>>

NaN == <<"nan", 0>>

PInf == <<"pinf", 0>>

NInf == <<"ninf", 0>>

Fin(n) == <<"fin", n>>

IsFinite(v) == v[1] = "fin"

IsNaN(v) == v[1] = "nan"

Abs(n) == IF n < 0 THEN -n ELSE n

Sign(n) == IF n < 0 THEN -1 ELSE IF n > 0 THEN 1 ELSE 0

\* Sign of a float that is not NaN: -1, 0 or 1.
FSign(v) == IF v = PInf THEN 1 ELSE IF v = NInf THEN -1 ELSE Sign(v[2])

InfOfSign(s) == IF s > 0 THEN PInf ELSE NInf

\* IEEE addition: NaN is absorbing, inf + (-inf) is NaN.
FAdd(a, b) ==
    IF IsNaN(a) \/ IsNaN(b) THEN NaN
    ELSE IF IsFinite(a) /\ IsFinite(b) THEN Fin(a[2] + b[2])
    ELSE IF IsFinite(a) THEN b
    ELSE IF IsFinite(b) THEN a
    ELSE IF a = b THEN a ELSE NaN

\* IEEE multiplication: NaN is absorbing, 0 * inf is NaN.
FMul(a, b) ==
    IF IsNaN(a) \/ IsNaN(b) THEN NaN
    ELSE IF IsFinite(a) /\ IsFinite(b) THEN Fin(a[2] * b[2])
    ELSE IF FSign(a) = 0 \/ FSign(b) = 0 THEN NaN
    ELSE InfOfSign(FSign(a) * FSign(b))

FNeg(a) ==
    IF IsFinite(a) THEN Fin(-a[2])
    ELSE IF a = PInf THEN NInf
    ELSE IF a = NInf THEN PInf
    ELSE a

FSub(a, b) == FAdd(a, FNeg(b))

FSquare(a) == FMul(a, a)

FAbs(a) == IF IsFinite(a) THEN Fin(Abs(a[2])) ELSE IF IsNaN(a) THEN NaN ELSE PInf

\* Division by a positive count (a mean); exact on the inputs of the model.
FDivCount(a, n) == IF IsFinite(a) THEN Fin(a[2] \div n) ELSE a

\* Python truthiness of an Optional[float]: None and 0.0 are falsy.
Truthy(v) == v /= None /\ v /= Fin(0)

\* Python's  a or b .
PyOr(a, b) == IF Truthy(a) THEN a ELSE b

\* Python's  a if a is not None else b .
IfNotNone(a, b) == IF a /= None THEN a ELSE b

RECURSIVE SeqSum(_)
SeqSum(s) == IF Len(s) = 0 THEN Fin(0) ELSE FAdd(s[1], SeqSum(Tail(s)))

SeqRange(s) == {s[i] : i \in 1..Len(s)}

\* ------------------------------------------------- VGG19FeatureExtractor
\* Number of convolutions in each block of vgg19().features; every
\* convolution is followed by a ReLU and every block ends with a max-pool.
BlockConvs == <<2, 2, 4, 4, 4>>

NumBlocks == Len(BlockConvs)

\* A layer name conv<b>_<c> is the pair <<b, c>>.
ConvName(b, c) == <<b, c>>

conv1_1 == ConvName(1, 1)

conv2_1 == ConvName(2, 1)

conv3_1 == ConvName(3, 1)

conv4_1 == ConvName(4, 1)

conv4_2 == ConvName(4, 2)

conv5_1 == ConvName(5, 1)

invalid_layer == ConvName(0, 0)

\* self.blocks[b]: conv, relu, ..., conv, relu, pool.
Block(b) ==
    [i \in 1..(2 * BlockConvs[b] + 1) |->
        IF i = 2 * BlockConvs[b] + 1 THEN "pool"
        ELSE IF i % 2 = 1 THEN "conv" ELSE "relu"]

\* self.layer_map: name -> (index of its block, index inside the block).
layer_map ==
    [n \in {ConvName(b, c) : b \in 1..NumBlocks, c \in 1..4} \cap
           UNION {{ConvName(b, c) : c \in 1..BlockConvs[b]} : b \in 1..NumBlocks}
        |-> <<n[1] - 1, 2 * (n[2] - 1)>>]

\* get_layer_names(): the catalog.
Catalog == DOMAIN layer_map

DefaultExtractorLayers == <<conv1_1, conv2_1, conv3_1, conv4_1, conv5_1>>

DefaultContentLayers == <<conv4_2>>

DefaultStyleLayers == <<conv1_1, conv2_1, conv3_1, conv4_1, conv5_1>>

\* Python's  layers or default  on a list: an empty list is falsy.
ListOr(layers, default) == IF Len(layers) = 0 THEN default ELSE layers

\* missing_layers = set(layers) - set(self.layer_map.keys())
MissingLayers(layers) == SeqRange(layers) \ Catalog

\* The layer lists callers hand in.
NamePool == {conv1_1, conv4_2, invalid_layer}

LayerLists ==
    {<<>>} \cup {<<a>> : a \in NamePool} \cup {<<a, b>> : a \in NamePool, b \in NamePool}

ContentLayerLists == {<<>>, <<conv4_2>>, <<conv1_1, conv4_2>>, <<invalid_layer>>}

StyleLayerLists == {<<>>, <<conv1_1, conv4_2>>, <<conv1_1, invalid_layer>>}

NameBefore(a, b) == a[1] < b[1] \/ (a[1] = b[1] /\ a[2] < b[2])

\* list(set(xs)): the distinct elements. Python does not fix their order and
\* nothing the extractor does reads it; the model lists them in name order.
RECURSIVE ListOfSetFrom(_)
ListOfSetFrom(S) ==
    IF S = {} THEN <<>>
    ELSE LET m == CHOOSE x \in S : \A y \in S \ {x} : NameBefore(x, y)
         IN  <<m>> \o ListOfSetFrom(S \ {m})

ListOfSet(xs) == ListOfSetFrom(SeqRange(xs))

\* max_block_needed of forward.
MaxBlockNeeded(layers) ==
    IF Len(layers) = 0 THEN -1
    ELSE CHOOSE m \in {layer_map[n][1] : n \in SeqRange(layers)} :
            \A n \in SeqRange(layers) : layer_map[n][1] <= m

\* forward that records only the first convolution of a block.
CapturedFirstOnly(b, layers) == {ConvName(b, 1)} \cap SeqRange(layers)

\* The names forward records while it runs block b (1-based).
CapturedInBlock(b, layers) ==
    {ConvName(b, c) : c \in 1..BlockConvs[b]} \cap SeqRange(layers)

\* The loop of forward from block b on: the recorded names and the number of
\* network layers evaluated.
RECURSIVE ForwardFrom(_, _, _, _)
ForwardFrom(b, processed, evaluated, layers) ==
    IF b > NumBlocks \/ (b - 1) > MaxBlockNeeded(layers)
    THEN [features |-> processed, evaluated |-> evaluated]
    ELSE LET p2 == processed \cup CapturedInBlock(b, layers)
             e2 == evaluated + Len(Block(b))
         IN  IF Cardinality(p2) = Len(layers)
             THEN [features |-> p2, evaluated |-> e2]
             ELSE ForwardFrom(b + 1, p2, e2, layers)

forward(layers) == ForwardFrom(1, {}, 0, layers)

VARIABLES
    fx_status,      \* "none" | "ready" | "raised": does the extractor object exist
    fx_layers,      \* self.layers
    fx_last,        \* the last call on the extractor: [op, arg, raised]
    fx_forwards,    \* forward passes computed so far
    fx_features,    \* keys of the mapping the last forward returned
    content_layers, \* StyleTransfer.content_layers, <<>> while no engine exists
    style_layers,   \* StyleTransfer.style_layers
    fx_requires_grad, \* does some parameter of the network require a gradient
    fx_training,    \* nn.Module.training
    fx_params       \* the parameter values: "pretrained" | "updated"

fxVars == <<fx_status, fx_layers, fx_last, fx_forwards, fx_features,
            content_layers, style_layers, fx_requires_grad, fx_training, fx_params>>

NoCall == [op |-> "none", arg |-> <<>>, raised |-> FALSE]

\* VGG19FeatureExtractor.__init__ run on `layers`: the state of the object
\* or the exception.
ExtractorInitValid(layers) == MissingLayers(layers) = {}

\* A construction that leaves the parameters trainable.
RequiresGradLeftOn == TRUE

\* Lines 62-63: param.requires_grad = False for every parameter.
RequiresGradAfterInit == FALSE

\* Line 65: self.eval() clears nn.Module.training.
TrainingAfterInit == FALSE

\* vgg19(weights=...) as torchvision hands it over (line 33): trainable
\* parameters, training mode, the pretrained values.
NetworkAsLoaded ==
    /\ fx_requires_grad' = TRUE
    /\ fx_training' = TRUE
    /\ fx_params' = "pretrained"

ExtractorConstruct(op, requested, layers) ==
    /\ fx_last' = [op |-> op, arg |-> requested, raised |-> ~ExtractorInitValid(layers)]
    /\ fx_forwards' = 0
    /\ fx_features' = {}
    /\ IF ExtractorInitValid(layers)
       THEN /\ fx_status' = "ready"
            /\ fx_layers' = layers
            /\ fx_requires_grad' = RequiresGradAfterInit
            /\ fx_training' = TrainingAfterInit
            /\ fx_params' = "pretrained"
       ELSE \* line 60 raises before the parameters are frozen
            /\ fx_status' = "raised"
            /\ fx_layers' = <<>>
            /\ NetworkAsLoaded

\* VGG19FeatureExtractor(layers=...)
ExtractorInit ==
    /\ fx_status \in {"none", "raised"}
    /\ \E layers \in LayerLists :
          ExtractorConstruct("init", layers, ListOr(layers, DefaultExtractorLayers))
    /\ content_layers' = <<>>
    /\ style_layers' = <<>>

\* StyleTransfer(content_layers=..., style_layers=...): builds its extractor
\* over list(set(content_layers + style_layers)).
StyleTransferInit ==
    /\ fx_status \in {"none", "raised"}
    /\ \E cl \in ContentLayerLists, sl \in StyleLayerLists :
          LET c == ListOr(cl, DefaultContentLayers)
              s == ListOr(sl, DefaultStyleLayers)
          IN  /\ ExtractorConstruct("style_transfer_init", c \o s, ListOfSet(c \o s))
              /\ IF ExtractorInitValid(ListOfSet(c \o s))
                 THEN content_layers' = c /\ style_layers' = s
                 ELSE content_layers' = <<>> /\ style_layers' = <<>>

\* set_layers that stores the list without checking it.
SetLayersUnchecked(layers) == TRUE

\* set_layers(layers)
SetLayersValid(layers) == MissingLayers(layers) = {}

SetLayers ==
    /\ fx_status = "ready"
    /\ \E layers \in LayerLists :
          /\ fx_last' = [op |-> "set_layers", arg |-> layers,
                         raised |-> ~SetLayersValid(layers)]
          /\ fx_layers' = IF SetLayersValid(layers) THEN layers ELSE fx_layers
    /\ UNCHANGED <<fx_status, fx_forwards, fx_features, content_layers, style_layers,
                   fx_requires_grad, fx_training, fx_params>>

\* forward(x)
Forward ==
    /\ fx_status = "ready"
    /\ fx_forwards < MaxForwardCalls
    /\ fx_forwards' = fx_forwards + 1
    /\ fx_features' = forward(fx_layers).features
    /\ fx_last' = [op |-> "forward", arg |-> fx_layers, raised |-> FALSE]
    /\ UNCHANGED <<fx_status, fx_layers, content_layers, style_layers,
                   fx_requires_grad, fx_training, fx_params>>

\* ----------------------------------------------------------- StyleTransfer
\* Defaults of StyleTransfer.__init__ (1.0, 1e6, 1e-6): small stand-ins that
\* keep their order of magnitude apart.
DefaultWeights == [content |-> Fin(1), style |-> Fin(3), tv |-> Fin(2)]

\* Stand-in for the frozen network: the activation of a layer on an image of
\* intensity px.
Activation(layer, px) == px

\* feature_extractor(image): one activation per selected layer.
Features(layers, px) == [l \in SeqRange(layers) |-> Activation(l, px)]

\* gram_matrix on a one-channel map of constant activation f over d x d
\* positions: d*d*f*f / (1*d*d).
gram_matrix(f, d) == FDivCount(FMul(Fin(d * d), FSquare(f)), 1 * d * d)

\* torch clamp_(0, 1): NaN stays NaN, the infinities go to the bounds.
clamp_(v) ==
    IF IsNaN(v) THEN NaN
    ELSE IF v = PInf THEN Fin(1)
    ELSE IF v = NInf THEN Fin(0)
    ELSE IF v[2] < 0 THEN Fin(0)
    ELSE IF v[2] > 1 THEN Fin(1) ELSE v

InRange(v) == IsFinite(v) /\ v[2] >= 0 /\ v[2] <= 1

\* compute_content_loss
compute_content_loss(input_features, target_features, c_layers) ==
    FDivCount(
        SeqSum([i \in 1..Len(c_layers) |->
                   FSquare(FSub(input_features[c_layers[i]], target_features[c_layers[i]]))]),
        Len(c_layers))

\* compute_style_loss
compute_style_loss(input_features, target_avg_grams, s_layers, d) ==
    FDivCount(
        SeqSum([i \in 1..Len(s_layers) |->
                   FSquare(FSub(gram_matrix(input_features[s_layers[i]], d),
                                target_avg_grams[s_layers[i]]))]),
        Len(s_layers))

\* compute_tv_loss: tv_h + tv_w, each the mean absolute difference of the
\* intensity against a zero neighbour.
compute_tv_loss(px) == FAdd(FAbs(FSub(px, Fin(0))), FAbs(FSub(px, Fin(0))))

\* _calculate_average_style_grams: per style layer the mean over the images.
average_style_grams(images, s_layers) ==
    [l \in SeqRange(s_layers) |->
        FDivCount(
            SeqSum([i \in 1..Len(images) |->
                       gram_matrix(Activation(l, images[i].px), images[i].dim)]),
            Len(images))]

\* transfer_style without its entry check: the empty list is only caught by
\* _calculate_average_style_grams.
EntryCheckMissing(images) == FALSE

\* transfer_style lines 179-180: the entry check on the reference list.
EmptyStyleRejectedAtEntry(images) == Len(images) = 0

\* transfer_style lines 182-185:  override or self.weight
ResolveWeight(override, own) == PyOr(override, own)

\* closure lines 229-233
WeightedTotal(w, cl, sl, tl) ==
    FAdd(FAdd(FMul(w.content, cl), FMul(w.style, sl)), FMul(w.tv, tl))

\* The losses the closure computes on the canvas px.
Losses(px, w, tcf, tag, c_layers, s_layers, x_layers, d) ==
    LET f  == Features(x_layers, px)
        cl == compute_content_loss(f, tcf, c_layers)
        sl == compute_style_loss(f, tag, s_layers, d)
        tl == compute_tv_loss(px)
    IN  [content_loss |-> cl, style_loss |-> sl, tv_loss |-> tl,
         total_loss |-> WeightedTotal(w, cl, sl, tl)]

\* A closure that records a step only when its total loss is finite.
HistoryAppendFiniteOnly(h, k, n, l) ==
    IF k < n /\ IsFinite(l.total_loss)
    THEN [content_loss |-> Append(h.content_loss, l.content_loss),
          style_loss   |-> Append(h.style_loss, l.style_loss),
          tv_loss      |-> Append(h.tv_loss, l.tv_loss),
          total_loss   |-> Append(h.total_loss, l.total_loss)]
    ELSE h

\* closure lines 239-243
HistoryAppend(h, k, n, l) ==
    IF k < n
    THEN [content_loss |-> Append(h.content_loss, l.content_loss),
          style_loss   |-> Append(h.style_loss, l.style_loss),
          tv_loss      |-> Append(h.tv_loss, l.tv_loss),
          total_loss   |-> Append(h.total_loss, l.total_loss)]
    ELSE h

\* A loop that runs one step too many.
LoopContinuesInclusive(k, n) == k <= n

\* line 252:  while step[0] < num_steps
LoopContinues(k, n) == k < n

\* The gradient total_loss.backward() leaves on the canvas: any sign, or a
\* non-finite value; a NaN canvas gives a NaN gradient.
Gradients(px) ==
    IF IsNaN(px) THEN {NaN}
    ELSE {Fin(-1), Fin(0), Fin(1), NaN, PInf, NInf}

\* optim.LBFGS(max_iter=1).step after its one closure call, on gradient g
\* with state["n_iter"] = n: the canvases it can leave. A zero gradient
\* returns early; a finite one moves the canvas against it; a NaN gradient
\* gives NaN; an infinite one gives NaN in the first iteration (step length
\* 0 times inf) and NaN or the opposite infinity afterwards.
LBFGSStep(px, g, n) ==
    IF g = Fin(0) THEN {px}
    ELSE IF IsFinite(g) THEN {FSub(px, g)}
    ELSE IF IsNaN(g) \/ n = 0 THEN {NaN}
    ELSE {NaN, FNeg(g)}

\* Line 199: the tensors the optimizer updates.
OptimizerParams == {"input_image"}

\* Line 189 / line 139: indexing the extractor's result with a layer it was
\* not asked for raises KeyError. The position of the first such layer, 0 if
\* there is none.
FirstMissing(layers, selected) ==
    IF \A i \in 1..Len(layers) : layers[i] \in SeqRange(selected) THEN 0
    ELSE CHOOSE i \in 1..Len(layers) :
            /\ layers[i] \notin SeqRange(selected)
            /\ \A j \in 1..(i - 1) : layers[j] \in SeqRange(selected)

\* What a progress observer may do with its arguments (line 247):
\* only read them, write into the tensor it is handed (snapshot.zero_()), or
\* append to the dict it is handed (history['total_loss'].append(0.0)).
Observers == {"reads", "writes_canvas", "appends_history"}

\* input_image.detach() shares the storage of the canvas: a write into the
\* snapshot is a write into the canvas.
ObserverCanvas(cb, px) == IF cb = "writes_canvas" THEN Fin(0) ELSE px

\* history is handed over as the dict itself.
ObserverHistory(cb, h) ==
    IF cb = "appends_history"
    THEN [h EXCEPT !.total_loss = Append(h.total_loss, Fin(0))]
    ELSE h

LBFGSIterations(g, n) == IF g = Fin(0) THEN n ELSE n + 1

\* lines 256-257: the clamp before the return.
FinalClamp(px) == clamp_(px)

NoWeights == [content |-> None, style |-> None, tv |-> None]

VARIABLES
    weights,        \* self.content_weight, self.style_weight, self.tv_weight
    pc,             \* "idle" | "loop" | "returned" | "raised"
    err,            \* the exception transfer_style raised, or "none"
    num_steps,      \* arguments of the running call
    overrides,
    callback,       \* "none" or the observer handed in
    content_image,
    style_images,
    used,           \* content_w, style_w, tv_w
    target_content_features,
    target_avg_grams,
    input_image,    \* the canvas
    lbfgs_n_iter,   \* optimizer.state["n_iter"]
    history,
    step,           \* step[0]
    run_forwards,   \* forward passes of the extractor in this call
    cb_calls,       \* invocations of callback in this call
    evals,          \* closure evaluations in this call
    opt_steps,      \* optimizer.step calls in this call
    nonfinite_step, \* first step whose gradient was non-finite, 0 if none
    last_valid      \* the canvas that step started from

engVars == <<weights, pc, err, num_steps, overrides, callback, content_image,
             style_images, used, target_content_features, target_avg_grams,
             input_image, lbfgs_n_iter, history, step, run_forwards, cb_calls,
             evals, opt_steps, nonfinite_step, last_valid>>

EmptyHistory ==
    [content_loss |-> <<>>, style_loss |-> <<>>, tv_loss |-> <<>>, total_loss |-> <<>>]

\* A history dict kept from one call to the next.
HistoryCarriedOver == history

\* Lines 202-207: every call makes its own dict of four empty lists.
NewHistory == EmptyHistory

\* The inputs of transfer_style.
ContentImages == {[dim |-> 2, px |-> Fin(0)], [dim |-> 2, px |-> Fin(2)]}

StyleA == [dim |-> 2, px |-> Fin(0)]

StyleB == [dim |-> 3, px |-> Fin(2)]

StyleLists == {<<>>, <<StyleA>>, <<StyleB>>, <<StyleA, StyleB>>}

OverrideValues == {None, Fin(0), Fin(2)}

Overrides == [content : OverrideValues, style : OverrideValues, tv : OverrideValues]

EngineIdle ==
    /\ weights = DefaultWeights
    /\ pc = "idle"
    /\ err = "none"
    /\ num_steps = 0
    /\ overrides = NoWeights
    /\ callback = "none"
    /\ content_image = [dim |-> 2, px |-> Fin(0)]
    /\ style_images = <<>>
    /\ used = NoWeights
    /\ target_content_features = << >>
    /\ target_avg_grams = << >>
    /\ input_image = Fin(0)
    /\ lbfgs_n_iter = 0
    /\ history = EmptyHistory
    /\ step = 0
    /\ run_forwards = 0
    /\ cb_calls = 0
    /\ evals = 0
    /\ opt_steps = 0
    /\ nonfinite_step = 0
    /\ last_valid = Fin(0)

\* transfer_style, lines 179-208, on its arguments: the entry check, the
\* weights, the targets, the canvas, the optimizer and the empty history.
BeginCall(c, ss, n, o, cb) ==
    /\ content_image' = c
    /\ style_images' = ss
    /\ num_steps' = n
    /\ overrides' = o
    /\ callback' = cb
    /\ input_image' = c.px
    /\ last_valid' = c.px
    /\ IF EmptyStyleRejectedAtEntry(ss)
       THEN /\ pc' = "raised"
            /\ err' = "ValueError"
            /\ run_forwards' = 0
            /\ used' = NoWeights
            /\ target_content_features' = << >>
            /\ target_avg_grams' = << >>
       ELSE IF FirstMissing(content_layers, fx_layers) /= 0
       THEN \* line 189: one pass per content layer up to the missing one
            /\ pc' = "raised"
            /\ err' = "KeyError"
            /\ run_forwards' = FirstMissing(content_layers, fx_layers)
            /\ used' = [content |-> ResolveWeight(o.content, weights.content),
                        style   |-> ResolveWeight(o.style, weights.style),
                        tv      |-> ResolveWeight(o.tv, weights.tv)]
            /\ target_content_features' = << >>
            /\ target_avg_grams' = << >>
       ELSE IF Len(ss) = 0
       THEN \* _calculate_average_style_grams line 129, after the content
            \* features were extracted
            /\ pc' = "raised"
            /\ err' = "ValueError"
            /\ run_forwards' = Len(content_layers)
            /\ used' = [content |-> ResolveWeight(o.content, weights.content),
                        style   |-> ResolveWeight(o.style, weights.style),
                        tv      |-> ResolveWeight(o.tv, weights.tv)]
            /\ target_content_features' = Features(content_layers, c.px)
            /\ target_avg_grams' = << >>
       ELSE IF FirstMissing(style_layers, fx_layers) /= 0
       THEN \* line 139, on the first style image
            /\ pc' = "raised"
            /\ err' = "KeyError"
            /\ run_forwards' = Len(content_layers) + 1
            /\ used' = [content |-> ResolveWeight(o.content, weights.content),
                        style   |-> ResolveWeight(o.style, weights.style),
                        tv      |-> ResolveWeight(o.tv, weights.tv)]
            /\ target_content_features' = Features(content_layers, c.px)
            /\ target_avg_grams' = << >>
       ELSE /\ pc' = "loop"
            /\ err' = "none"
            /\ run_forwards' = Len(content_layers) + Len(ss)
            /\ used' = [content |-> ResolveWeight(o.content, weights.content),
                        style   |-> ResolveWeight(o.style, weights.style),
                        tv      |-> ResolveWeight(o.tv, weights.tv)]
            /\ target_content_features' = Features(content_layers, c.px)
            /\ target_avg_grams' = average_style_grams(ss, style_layers)
    /\ lbfgs_n_iter' = 0
    /\ history' = NewHistory
    /\ step' = 0
    /\ cb_calls' = 0
    /\ evals' = 0
    /\ opt_steps' = 0
    /\ nonfinite_step' = 0
    /\ UNCHANGED <<weights, fxVars>>

\* A caller invokes transfer_style.
TransferStyleBegin ==
    /\ pc = "idle"
    /\ \E c \in ContentImages, ss \in StyleLists, n \in 0..MaxSteps,
          o \in Overrides, cb \in {"none", "reads"} : BeginCall(c, ss, n, o, cb)

\* One optimizer.step(closure), line 253: the closure (lines 211-250) runs
\* once, then LBFGS moves the canvas.
OptimizerStep ==
    /\ pc = "loop"
    /\ LoopContinues(step, num_steps)
    /\ \E g \in Gradients(clamp_(input_image)) :
       \E new \in LBFGSStep(ObserverCanvas(callback, clamp_(input_image)), g,
                             lbfgs_n_iter) :
          /\ input_image' = new
          /\ lbfgs_n_iter' = LBFGSIterations(g, lbfgs_n_iter)
          /\ nonfinite_step' =
                IF nonfinite_step = 0 /\ ~IsFinite(g) THEN step + 1 ELSE nonfinite_step
          /\ last_valid' =
                IF nonfinite_step = 0 /\ ~IsFinite(g)
                THEN clamp_(input_image) ELSE last_valid
    /\ history' =
          ObserverHistory(callback,
              HistoryAppend(history, step, num_steps,
                            Losses(clamp_(input_image), used, target_content_features,
                                   target_avg_grams, content_layers, style_layers,
                                   fx_layers, content_image.dim)))
    /\ run_forwards' = run_forwards + 1
    /\ cb_calls' = IF callback /= "none" THEN cb_calls + 1 ELSE cb_calls
    /\ evals' = evals + 1
    /\ opt_steps' = opt_steps + 1
    /\ step' = step + 1
    /\ fx_params' = IF "network" \in OptimizerParams /\ fx_requires_grad
                     THEN "updated" ELSE fx_params
    /\ UNCHANGED <<weights, pc, err, num_steps, overrides, callback, content_image,
                   style_images, used, target_content_features, target_avg_grams,
                   fx_status, fx_layers, fx_last, fx_forwards, fx_features,
                   content_layers, style_layers, fx_requires_grad, fx_training>>

\* Lines 255-259: the loop ends, the canvas is clamped and returned.
TransferStyleReturn ==
    /\ pc = "loop"
    /\ ~LoopContinues(step, num_steps)
    /\ input_image' = FinalClamp(input_image)
    /\ pc' = "returned"
    /\ UNCHANGED <<weights, err, num_steps, overrides, callback, content_image,
                   style_images, used, target_content_features, target_avg_grams,
                   lbfgs_n_iter, history, step, run_forwards, cb_calls, evals,
                   opt_steps, nonfinite_step, last_valid, fxVars>>

\* transfer_style on an engine a caller built and whose extractor the caller
\* may have re-targeted with set_layers.
TransferStyleOnObject ==
    /\ pc = "idle"
    /\ fx_status = "ready"
    /\ content_layers /= <<>>
    /\ \E ss \in {<<StyleA>>, <<StyleA, StyleB>>}, n \in 0..1 :
          BeginCall([dim |-> 2, px |-> Fin(2)], ss, n, NoWeights, "none")

\* transfer_style with a progress observer of any kind.
TransferStyleObserved ==
    /\ pc = "idle"
    /\ \E c \in ContentImages, n \in 0..MaxSteps, cb \in Observers :
          BeginCall(c, <<StyleA>>, n, NoWeights, cb)

\* The extractor and the engine as TransformationService.__init__ builds
\* them, with the default layers.
ExtractorReady ==
    /\ fx_status = "ready"
    /\ fx_layers = ListOfSet(DefaultContentLayers \o DefaultStyleLayers)
    /\ fx_last = NoCall
    /\ fx_forwards = 0
    /\ fx_features = {}
    /\ content_layers = DefaultContentLayers
    /\ style_layers = DefaultStyleLayers
    /\ fx_requires_grad = RequiresGradAfterInit
    /\ fx_training = TrainingAfterInit
    /\ fx_params = "pretrained"

\* --------------------------------------------------- TransformationService
\* Optional[bool] values of a request.
BoolOf(b) == <<"bool", IF b THEN 1 ELSE 0>>

OptBools == {None, BoolOf(TRUE), BoolOf(FALSE)}

\* DEFAULT_* of transform_service.py, lines 63-69: the weights the engine is
\* built with, and stand-ins for the step count (300) and the learning
\* rate (0.02).
ServiceDefaults ==
    [content_weight |-> DefaultWeights.content,
     style_weight   |-> DefaultWeights.style,
     tv_weight      |-> DefaultWeights.tv,
     num_steps      |-> Fin(3),
     learning_rate  |-> Fin(1)]

\* The parameters of StyleTransfer.transfer_style, lines 154-163.
TransferStyleParameters ==
    {"content_image", "style_images", "num_steps", "content_weight",
     "style_weight", "tv_weight", "callback"}

\* The keywords _local_transform passes to it, lines 302-310.
LocalTransformKeywords ==
    {"num_steps", "style_weight", "content_weight", "tv_weight", "learning_rate"}

\* Python binds a call only if the function has a parameter for every keyword.
CallBinds(keywords, parameters) == keywords \subseteq parameters

Requests ==
    [content_weight : OverrideValues, style_weight : {None, Fin(2)},
     tv_weight : {None, Fin(0)}, num_steps : {None, Fin(2)},
     learning_rate : {None, Fin(2)}, usm_enabled : OptBools,
     clahe_enabled : OptBools, saturation_enabled : OptBools]

NoRequest ==
    [content_weight |-> None, style_weight |-> None, tv_weight |-> None,
     num_steps |-> None, learning_rate |-> None, usm_enabled |-> None,
     clahe_enabled |-> None, saturation_enabled |-> None]

NoFinal ==
    [content_weight |-> None, style_weight |-> None, tv_weight |-> None,
     num_steps |-> None, learning_rate |-> None]

NoParameters ==
    [content_weight |-> None, style_weight |-> None, tv_weight |-> None,
     num_steps |-> None, learning_rate |-> None, post_processing_applied |-> {}]

\* The style files a request ends up with.
StylePathCounts == {0, 1, 2}

\* The 'enabled' entries of POST_PROCESSING_CONFIG (config.yaml); a missing
\* entry reads as False.
NoPostProcessing == [usm |-> FALSE, clahe |-> FALSE, sat |-> FALSE]

PostProcessingConfigs ==
    {NoPostProcessing,
     [usm |-> TRUE, clahe |-> FALSE, sat |-> FALSE],
     [usm |-> TRUE, clahe |-> TRUE, sat |-> TRUE]}

\* Lines 331, 355, 375:  param if param is not None else config 'enabled'
ResolveFlag(param, configured) ==
    IF param /= None THEN param = BoolOf(TRUE) ELSE configured

\* An image: the pixel data it was converted from and the filters applied to
\* it since, in order. The filters themselves (OpenCV, PIL) are not modelled.
NoImage == [base |-> None, stages |-> <<>>]

\* ImageProcessor.tensor_to_image: denormalise, clamp, scale to 8 bits.
TensorToImage(px) == [base |-> <<"rgb8", px>>, stages |-> <<>>]

ApplyStage(img, name) == [img EXCEPT !.stages = Append(@, name)]

\* _local_transform lines 325-387: a copy of the converted image, then
\* unsharp mask, CLAHE and saturation, each under its own flag.
PostProcess(img, flags) ==
    LET sharpened  == IF flags.usm THEN ApplyStage(img, "unsharp_mask") ELSE img
        contrasted == IF flags.clahe THEN ApplyStage(sharpened, "clahe_contrast")
                      ELSE sharpened
    IN  IF flags.sat THEN ApplyStage(contrasted, "saturation_boost") ELSE contrasted

\* The flags of a request as lines 331, 355 and 375 resolve them.
ResolvedFlags(r, config) ==
    [usm   |-> ResolveFlag(r.usm_enabled, config.usm),
     clahe |-> ResolveFlag(r.clahe_enabled, config.clahe),
     sat   |-> ResolveFlag(r.saturation_enabled, config.sat)]

VARIABLES
    svc_pc,          \* "idle" | "local_transform" | "engine_call" | "synthesis"
                     \* | "returned" | "raised"
    svc_err,         \* the exception transform_image caught and re-raised as
                     \* RuntimeError (lines 717-719), or "none"
    request,         \* the arguments of transform_image
    final,           \* final_content_weight, ..., final_learning_rate
    parameters_used, \* the record _local_transform builds
    style_paths,     \* number of style_source_paths
    style_loaded,    \* number of style tensors loaded from them
    pp_config,       \* POST_PROCESSING_CONFIG
    final_image,     \* final_enhanced_pil_image
    http_status,     \* status of the /transform response, 0 before it
    event_loop,      \* "free", or "request" while the handler's coroutine runs
    other_request    \* a second client: "none" | "pending" | "accepted"

svcVars == <<svc_pc, svc_err, request, final, parameters_used, style_paths,
             style_loaded, pp_config, final_image, http_status, event_loop,
             other_request>>

ServiceIdleWith(config) ==
    /\ pp_config = config
    /\ final_image = NoImage
    /\ http_status = 0
    /\ event_loop = "free"
    /\ other_request = "none"
    /\ svc_pc = "idle"
    /\ svc_err = "none"
    /\ request = NoRequest
    /\ final = NoFinal
    /\ parameters_used = NoParameters
    /\ style_paths = 0
    /\ style_loaded = 0

ServiceIdle == ServiceIdleWith(NoPostProcessing)

\* POST /transform with a period and a category for the default local_vgg
\* model: the endpoint (app.py 70-153) awaits transform_image (lines
\* 600-670), which resolves the final_* values and fetches the style files
\* with blocking calls. The coroutine runs on the event loop from here on.
TransformImage ==
    /\ svc_pc = "idle"
    /\ event_loop = "free"
    /\ \E r \in Requests, k \in StylePathCounts :
          /\ request' = r
          /\ final' =
                [content_weight |-> IfNotNone(r.content_weight, ServiceDefaults.content_weight),
                 style_weight   |-> IfNotNone(r.style_weight, ServiceDefaults.style_weight),
                 tv_weight      |-> IfNotNone(r.tv_weight, ServiceDefaults.tv_weight),
                 num_steps      |-> IfNotNone(r.num_steps, ServiceDefaults.num_steps),
                 learning_rate  |-> IfNotNone(r.learning_rate, ServiceDefaults.learning_rate)]
          /\ style_paths' = k
          /\ IF k = 0
             THEN /\ svc_pc' = "raised"
                  /\ svc_err' = "ValueError"
                  /\ http_status' = 500
                  /\ event_loop' = "free"
             ELSE /\ svc_pc' = "local_transform"
                  /\ svc_err' = "none"
                  /\ http_status' = 0
                  /\ event_loop' = "request"
    /\ UNCHANGED <<parameters_used, style_loaded, pp_config, final_image,
                   other_request, fxVars, engVars>>

\* _local_transform, lines 262-297: the record, then the images.
LocalTransformLoad ==
    /\ svc_pc = "local_transform"
    /\ parameters_used' =
          [content_weight |-> final.content_weight,
           style_weight   |-> final.style_weight,
           tv_weight      |-> final.tv_weight,
           num_steps      |-> final.num_steps,
           learning_rate  |-> final.learning_rate,
           post_processing_applied |-> {}]
    /\ \E k \in 0..style_paths :
          /\ style_loaded' = k
          /\ IF k = 0
             THEN /\ svc_pc' = "raised"
                  /\ svc_err' = "RuntimeError"
                  /\ http_status' = 500
                  /\ event_loop' = "free"
             ELSE /\ svc_pc' = "engine_call"
                  /\ svc_err' = "none"
                  /\ UNCHANGED <<http_status, event_loop>>
    /\ UNCHANGED <<request, final, style_paths, pp_config, final_image,
                   other_request, fxVars, engVars>>

\* _local_transform, lines 302-310: the call of transfer_style, made by the
\* coroutine itself. A call that does not bind raises TypeError before the
\* engine runs; transform_image turns it into a RuntimeError (lines 717-719)
\* and the endpoint into a 500 (app.py 146-153).
LocalTransformCallEngine ==
    /\ svc_pc = "engine_call"
    /\ IF CallBinds(LocalTransformKeywords, TransferStyleParameters)
       THEN /\ svc_pc' = "synthesis"
            /\ svc_err' = "none"
            /\ UNCHANGED <<http_status, event_loop>>
            /\ \E c \in ContentImages :
                  BeginCall(c, [i \in 1..style_loaded |-> [dim |-> c.dim, px |-> Fin(0)]],
                            final.num_steps[2],
                            [content |-> final.content_weight,
                             style   |-> final.style_weight,
                             tv      |-> final.tv_weight],
                            "none")
       ELSE /\ svc_pc' = "raised"
            /\ svc_err' = "TypeError"
            /\ http_status' = 500
            /\ event_loop' = "free"
            /\ UNCHANGED <<fxVars, engVars>>
    /\ UNCHANGED <<request, final, parameters_used, style_paths, style_loaded,
                   pp_config, final_image, other_request>>

\* _local_transform, lines 312-402, once transfer_style has come back: the
\* conversion, the enhancement chain, the record, and the 200 response
\* (app.py 139-144).
LocalTransformFinish ==
    /\ svc_pc = "synthesis"
    /\ pc \in {"returned", "raised"}
    /\ IF pc = "raised"
       THEN /\ svc_pc' = "raised"
            /\ svc_err' = err
            /\ http_status' = 500
            /\ UNCHANGED <<final_image, parameters_used>>
       ELSE /\ svc_pc' = "returned"
            /\ svc_err' = "none"
            /\ http_status' = 200
            /\ final_image' = PostProcess(TensorToImage(input_image),
                                          ResolvedFlags(request, pp_config))
            /\ parameters_used' =
                  [parameters_used EXCEPT !.post_processing_applied =
                      ResolvedFlags(request, pp_config)]
    /\ event_loop' = "free"
    /\ UNCHANGED <<request, final, style_paths, style_loaded, pp_config,
                   other_request, fxVars, engVars>>

\* A second client sends a request: its connection waits for the event loop.
OtherRequestArrives ==
    /\ other_request = "none"
    /\ other_request' = "pending"
    /\ UNCHANGED <<svc_pc, svc_err, request, final, parameters_used, style_paths,
                   style_loaded, pp_config, final_image, http_status, event_loop,
                   fxVars, engVars>>

\* The event loop accepts it and starts serving it; it can do so only while
\* no coroutine is running on it.
OtherRequestAccepted ==
    /\ other_request = "pending"
    /\ event_loop = "free"
    /\ other_request' = "accepted"
    /\ UNCHANGED <<svc_pc, svc_err, request, final, parameters_used, style_paths,
                   style_loaded, pp_config, final_image, http_status, event_loop,
                   fxVars, engVars>>

\* ------------------------------------------ Gram matrices and their mean
\* Exact fractions <<numerator, denominator>> for the entries of a Gram
\* matrix, so that the normalisation and the mean lose nothing.
Rat(n, d) == <<n, d>>

RatEq(x, y) == x[1] * y[2] = y[1] * x[2]

RatAdd(x, y) == <<x[1] * y[2] + y[1] * x[2], x[2] * y[2]>>

RatDiv(x, n) == <<x[1], x[2] * n>>

RECURSIVE RatSum(_)
RatSum(s) == IF Len(s) = 0 THEN Rat(0, 1) ELSE RatAdd(s[1], RatSum(Tail(s)))

RECURSIVE IntSum(_)
IntSum(s) == IF Len(s) = 0 THEN 0 ELSE s[1] + IntSum(Tail(s))

\* Largest number of style references in one call.
MaxReferences == 2

FeatureValues == {-1, 2}

FeatureShapes == {<<1, 1>>, <<1, 2>>, <<2, 1>>}

\* Feature tensors of shape b x c x h x w, already viewed as b x c x (h*w).
FeatureTensors(bs, cs) ==
    UNION {[b : {b}, c : {c}, h : {hw[1]}, w : {hw[2]},
            data : [1..b -> [1..c -> [1..(hw[1] * hw[2]) -> FeatureValues]]]] :
           b \in bs, c \in cs, hw \in FeatureShapes}

\* features_reshaped.transpose(1, 2) of one batch element: (h*w) x c.
Transpose(m, rows, cols) == [p \in 1..cols |-> [i \in 1..rows |-> m[i][p]]]

\* torch.bmm on one batch element: (rows x inner) times (inner x cols).
MatMul(x, y, rows, inner, cols) ==
    [i \in 1..rows |-> [j \in 1..cols |->
        IntSum([p \in 1..inner |-> x[i][p] * y[p][j]])]]

\* A normalisation by the spatial size alone.
NormFactorSpatial(t) == t.h * t.w

\* gram_matrix line 149
NormFactor(t) == t.c * t.h * t.w

\* VGG19FeatureExtractor.gram_matrix on a whole tensor: b x c x c.
GramMatrix(t) ==
    [k \in 1..t.b |->
        LET gram == MatMul(t.data[k], Transpose(t.data[k], t.c, t.h * t.w),
                           t.c, t.h * t.w, t.c)
        IN  [i \in 1..t.c |-> [j \in 1..t.c |->
                IF NormFactor(t) > 0
                THEN RatDiv(Rat(gram[i][j], 1), NormFactor(t))
                ELSE Rat(gram[i][j], 1)]]]

\* A stack that is summed but not divided.
StackSum(grams) ==
    [k \in DOMAIN grams[1] |-> [i \in DOMAIN grams[1][k] |-> [j \in DOMAIN grams[1][k][i] |->
        RatSum([n \in 1..Len(grams) |-> grams[n][k][i][j]])]]]

\* torch.mean(torch.stack(grams, dim=0), dim=0), line 148
StackMean(grams) ==
    [k \in DOMAIN grams[1] |-> [i \in DOMAIN grams[1][k] |-> [j \in DOMAIN grams[1][k][i] |->
        RatDiv(RatSum([n \in 1..Len(grams) |-> grams[n][k][i][j]]), Len(grams))]]]

\* The activations of one style layer on the references of a call: up to
\* MaxReferences tensors of batch size 1 with the layer's channel count.
ReferenceLists ==
    UNION {[1..n -> FeatureTensors({1}, {c})] : n \in 0..MaxReferences, c \in {1, 2}}

VARIABLES
    st_pc,      \* "idle" | "gram" | "averaged" | "raised"
    st_in,      \* the feature tensors handed in
    st_grams,   \* their Gram matrices
    st_avg      \* the averaged Gram matrix of the layer

stVars == <<st_pc, st_in, st_grams, st_avg>>

StatisticsIdle ==
    /\ st_pc = "idle"
    /\ st_in = <<>>
    /\ st_grams = <<>>
    /\ st_avg = <<>>

\* gram_matrix(features)
GramCall ==
    /\ st_pc = "idle"
    /\ \E t \in FeatureTensors({1, 2}, {1, 2}) :
          /\ st_in' = <<t>>
          /\ st_grams' = <<GramMatrix(t)>>
    /\ st_pc' = "gram"
    /\ UNCHANGED st_avg

\* _calculate_average_style_grams, for one style layer
AverageStyleGrams ==
    /\ st_pc = "idle"
    /\ \E refs \in ReferenceLists :
          /\ st_in' = refs
          /\ IF Len(refs) = 0
             THEN /\ st_pc' = "raised"
                  /\ UNCHANGED <<st_grams, st_avg>>
             ELSE /\ st_pc' = "averaged"
                  /\ st_grams' = [n \in 1..Len(refs) |-> GramMatrix(refs[n])]
                  /\ st_avg' = StackMean([n \in 1..Len(refs) |-> GramMatrix(refs[n])])

\* ------------------------------------------- concurrent transfer_style calls
\* Two requests inside transfer_style on the one engine (app.py line 41,
\* TransformationService.__init__ lines 142-150). Everything transfer_style
\* creates in lines 188-208 is a local of the call: a frame per call.
Calls == {1, 2}

\* Line 208, step = [0]: a list object made anew by every call. Objects are
\* named by the call that made them.
SharedStepCell(r) == 1

NewStepCell(r) == r

NoFrame ==
    [pc |-> "idle", num_steps |-> 0, dim |-> 0, input_image |-> None,
     lbfgs_n_iter |-> 0, history |-> EmptyHistory, step |-> 0, used |-> NoWeights,
     target_content_features |-> << >>, target_avg_grams |-> << >>]

VARIABLES
    cc_frames,   \* the locals of each call
    cc_cells,    \* the one-element lists that hold step counters
    cc_actor     \* the call that took the last step, 0 before any

ccVars == <<cc_frames, cc_cells, cc_actor>>

ConcurrentIdle ==
    /\ cc_frames = [r \in Calls |-> NoFrame]
    /\ cc_cells = [k \in Calls |-> 0]
    /\ cc_actor = 0

\* Lines 180-208 for call r: weights, targets, canvas, optimizer, history
\* and counter.
ConcurrentBegin(r) ==
    /\ cc_frames[r].pc = "idle"
    /\ \E c \in ContentImages, n \in 1..2 :
          cc_frames' =
             [cc_frames EXCEPT ![r] =
                 [pc |-> "loop", num_steps |-> n, dim |-> c.dim,
                  input_image |-> c.px, lbfgs_n_iter |-> 0,
                  history |-> EmptyHistory, step |-> NewStepCell(r),
                  used |-> [content |-> ResolveWeight(None, weights.content),
                            style   |-> ResolveWeight(None, weights.style),
                            tv      |-> ResolveWeight(None, weights.tv)],
                  target_content_features |-> Features(content_layers, c.px),
                  target_avg_grams |-> average_style_grams(<<StyleA>>, style_layers)]]
    /\ cc_cells' = [cc_cells EXCEPT ![NewStepCell(r)] = 0]
    /\ cc_actor' = r
    /\ UNCHANGED <<fxVars, engVars>>

\* One optimizer.step(closure) of call r, lines 211-253.
ConcurrentStep(r) ==
    LET f == cc_frames[r]
        k == cc_cells[f.step]
    IN  /\ f.pc = "loop"
        /\ LoopContinues(k, f.num_steps)
        /\ \E g \in Gradients(clamp_(f.input_image)) :
           \E new \in LBFGSStep(clamp_(f.input_image), g, f.lbfgs_n_iter) :
              cc_frames' =
                 [cc_frames EXCEPT ![r] =
                     [f EXCEPT
                         !.input_image = new,
                         !.lbfgs_n_iter = LBFGSIterations(g, f.lbfgs_n_iter),
                         !.history =
                            HistoryAppend(f.history, k, f.num_steps,
                                Losses(clamp_(f.input_image), f.used,
                                       f.target_content_features, f.target_avg_grams,
                                       content_layers, style_layers, fx_layers, f.dim))]]
        /\ cc_cells' = [cc_cells EXCEPT ![f.step] = k + 1]
        /\ cc_actor' = r
        /\ fx_params' = IF "network" \in OptimizerParams /\ fx_requires_grad
                         THEN "updated" ELSE fx_params
        /\ UNCHANGED <<fx_status, fx_layers, fx_last, fx_forwards, fx_features,
                       content_layers, style_layers, fx_requires_grad, fx_training,
                       engVars>>

\* Lines 255-259 of call r.
ConcurrentReturn(r) ==
    LET f == cc_frames[r]
    IN  /\ f.pc = "loop"
        /\ ~LoopContinues(cc_cells[f.step], f.num_steps)
        /\ cc_frames' =
              [cc_frames EXCEPT ![r] =
                  [f EXCEPT !.pc = "returned",
                            !.input_image = FinalClamp(f.input_image)]]
        /\ cc_actor' = r
        /\ UNCHANGED <<cc_cells, fxVars, engVars>>

\* What call r owns: its locals and the counter its step list holds.
OwnState(r) ==
    <<cc_frames[r], IF cc_frames[r].pc = "idle" THEN 0 ELSE cc_cells[cc_frames[r].step]>>

\* ------------------------------------------------- the /transform endpoint
\* A form field that is absent, or sent empty, reaches the handler as None;
\* an id that is present is a non-empty string.
FormId(n) == <<"str", n>>

FormIds == {None, FormId(1)}

ModelChoices == {"local_vgg", "local_magenta", "cloud_gradio", "other"}

ProcessingModes == {"local", "cloud"}

\* The form of a request: app.py lines 71-89.
EndpointRequests ==
    [period_id : FormIds, category_id : FormIds, local_style_image_file : BOOLEAN,
     processing_mode : ProcessingModes, ai_model_choice : ModelChoices]

NoEndpointRequest ==
    [period_id |-> None, category_id |-> None, local_style_image_file |-> FALSE,
     processing_mode |-> "local", ai_model_choice |-> "local_vgg"]

\* app.py lines 96-100 alone.
FirstCheckOnly(r) ==
    ~(~r.local_style_image_file /\ (r.period_id = None \/ r.category_id = None))

\* app.py lines 96-105: the two checks a request must pass.
StyleSourceAccepted(r) ==
    /\ ~(~r.local_style_image_file /\ (r.period_id = None \/ r.category_id = None))
    /\ ~(r.local_style_image_file /\ (r.period_id /= None \/ r.category_id /= None))

\* transform_image lines 611, 648, 693, 712: the branch taken. The mode is
\* logged (lines 606, 718) and read nowhere else.
Route(mode, choice) ==
    IF choice = "local_magenta" THEN "magenta"
    ELSE IF choice = "local_vgg" THEN "vgg"
    ELSE IF choice = "cloud_gradio" THEN "gradio" ELSE "unsupported"

\* URLs the gateway may return for one request.
MaxUrls == 2

\* Files in TEMP_STYLE_DIR: the copy of an uploaded style file and the
\* download of the i-th URL. Names carry a uuid, so they never collide.
UploadCopy == <<"upload", 0>>

Download(i) == <<"download", i>>

\* Outcomes of one download in _download_style_images, lines 193-221:
\* written in full and appended to downloaded_paths; given up before the file
\* is opened (timeout, HTTP error, not an image); or failed while the chunks
\* are written, after open() created the file.
DownloadOutcomes == {"saved", "skipped", "broken"}

VARIABLES
    ep_pc,        \* "idle" | "dispatch" | "style_upload" | "download" | "backend" | "responded"
    ep_req,       \* the form
    ep_status,    \* HTTP status of the response, 0 before it
    ep_content,   \* content_path: "none" | "on_disk" | "removed"
    ep_backend,   \* the branch of transform_image taken, "none" before
    ep_temp,      \* files of this request that exist in TEMP_STYLE_DIR
    ep_clean,     \* files in the lists handed to _cleanup_temp_files
    ep_urls,      \* number of URLs to download
    ep_next       \* index of the next URL

epVars == <<ep_pc, ep_req, ep_status, ep_content, ep_backend, ep_temp, ep_clean,
            ep_urls, ep_next>>

EndpointIdle ==
    /\ ep_pc = "idle"
    /\ ep_req = NoEndpointRequest
    /\ ep_status = 0
    /\ ep_content = "none"
    /\ ep_backend = "none"
    /\ ep_temp = {}
    /\ ep_clean = {}
    /\ ep_urls = 0
    /\ ep_next = 0

\* transform_image raised: lines 717-719, then app.py 146-153 remove the
\* content file and answer 500.
EndpointFails ==
    /\ ep_pc' = "responded"
    /\ ep_status' = 500
    /\ ep_content' = IF ep_content = "on_disk" THEN "removed" ELSE ep_content

\* POST /transform, app.py lines 96-115: the checks, then the content file.
EndpointTransform ==
    /\ ep_pc = "idle"
    /\ \E r \in EndpointRequests :
          /\ ep_req' = r
          /\ IF StyleSourceAccepted(r)
             THEN /\ ep_pc' = "dispatch"
                  /\ ep_status' = 0
                  /\ ep_content' = "on_disk"
             ELSE /\ ep_pc' = "responded"
                  /\ ep_status' = 422
                  /\ ep_content' = "none"
    /\ UNCHANGED <<ep_backend, ep_temp, ep_clean, ep_urls, ep_next>>

\* transform_image lines 609-702: the branch, then either the upload branch
\* or _fetch_style_image_urls, which raises, or returns no URL (ValueError),
\* or returns some.
EndpointDispatch ==
    /\ ep_pc = "dispatch"
    /\ ep_backend' = Route(ep_req.processing_mode, ep_req.ai_model_choice)
    /\ IF Route(ep_req.processing_mode, ep_req.ai_model_choice) = "unsupported"
       THEN EndpointFails /\ UNCHANGED <<ep_urls, ep_next>>
       ELSE IF ep_req.local_style_image_file
       THEN /\ ep_pc' = "style_upload"
            /\ UNCHANGED <<ep_status, ep_content, ep_urls, ep_next>>
       ELSE \E raised \in BOOLEAN, fetched \in 0..MaxUrls :
               IF raised \/ fetched = 0
               THEN EndpointFails /\ UNCHANGED <<ep_urls, ep_next>>
               ELSE /\ ep_pc' = "download"
                    \* _cloud_transform_gradio_space downloads style_urls[0] only
                    /\ ep_urls' = IF ep_req.ai_model_choice = "cloud_gradio"
                                  THEN 1 ELSE fetched
                    /\ ep_next' = 1
                    /\ UNCHANGED <<ep_status, ep_content>>
    /\ UNCHANGED <<ep_req, ep_temp, ep_clean>>

\* Lines 618-623, 654-659, 497-503: open() creates the copy, then the upload
\* is read and written. Its path joins a cleanup list, or the scope of a
\* finally, only after the write.
EndpointSaveStyleUpload ==
    /\ ep_pc = "style_upload"
    /\ ep_temp' = ep_temp \cup {UploadCopy}
    /\ \E written \in BOOLEAN :
          IF written
          THEN /\ ep_clean' = ep_clean \cup {UploadCopy}
               /\ ep_pc' = "backend"
               /\ UNCHANGED <<ep_status, ep_content>>
          ELSE EndpointFails /\ UNCHANGED ep_clean
    /\ UNCHANGED <<ep_req, ep_backend, ep_urls, ep_next>>

\* _download_style_images, lines 188-229: one URL per step; after the last
\* one, RuntimeError if downloaded_paths is empty (lines 223-224, 226-228).
EndpointDownload ==
    /\ ep_pc = "download"
    /\ \E outcome \in DownloadOutcomes :
          LET file  == Download(ep_next)
              temp  == IF outcome = "skipped" THEN ep_temp ELSE ep_temp \cup {file}
              clean == IF outcome = "saved" THEN ep_clean \cup {file} ELSE ep_clean
          IN  /\ ep_clean' = clean
              /\ IF ep_next < ep_urls
                 THEN /\ ep_temp' = temp
                      /\ ep_next' = ep_next + 1
                      /\ UNCHANGED <<ep_pc, ep_status, ep_content>>
                 ELSE IF clean = {}
                 THEN /\ ep_temp' = temp \ clean
                      /\ EndpointFails
                      /\ UNCHANGED ep_next
                 ELSE /\ ep_temp' = temp
                      /\ ep_pc' = "backend"
                      /\ UNCHANGED <<ep_next, ep_status, ep_content>>
    /\ UNCHANGED <<ep_req, ep_backend, ep_urls>>

\* Can the backend finish: the local_vgg one only if its transfer_style call
\* binds (lines 302-310); the other two depend on their model or service.
BackendOutcomes(backend) ==
    IF backend = "vgg" /\ ~CallBinds(LocalTransformKeywords, TransferStyleParameters)
    THEN {"raised"} ELSE {"returned", "raised"}

\* _local_transform, _execute_tfhub_magenta_model_locally or
\* _cloud_transform_gradio_space, with the finally blocks that follow them
\* (lines 403-404, 560-561, 643-646, 689-691), then app.py 139-153.
EndpointRunBackend ==
    /\ ep_pc = "backend"
    /\ ep_temp' = ep_temp \ ep_clean
    /\ ep_pc' = "responded"
    /\ ep_content' = "removed"
    /\ \E outcome \in BackendOutcomes(ep_backend) :
          ep_status' = IF outcome = "returned" THEN 200 ELSE 500
    /\ UNCHANGED <<ep_req, ep_backend, ep_clean, ep_urls, ep_next>>

\* ------------------------------------------- list objects of the extractor
\* Python lists are objects: the extractor's self.layers may be the very
\* list a caller still holds, or a copy of it. The caller's handles:
\* the list given to the constructor, and the list most recently passed to
\* set_layers or returned by get_selected_layers.
NoList == [value |-> <<>>, origin |-> "none", aliased |-> FALSE, changed |-> FALSE]

\* Line 28,  self.layers = layers or [...] : a non-empty argument is kept as
\* it is, the same object; an empty one is replaced by a new list.
InitKeepsReference(layers) == Len(layers) > 0

\* set_layers that keeps the caller's list.
SetLayersKeepsReference == FALSE

\* Line 131,  self.layers = layers.copy()
SetLayersStoresCopy == TRUE

\* Line 116,  return self.layers.copy()
GetSelectedLayersReturnsCopy == TRUE

\* What a caller may turn a list it holds into.
ChangedLists == {<<invalid_layer>>, <<conv4_2, invalid_layer>>, <<conv1_1>>}

\* Position in the network, counted from 1, of the convolution `name`:
\* the layers of the blocks before its own, then its index in the block.
RECURSIVE LayersBeforeBlock(_)
LayersBeforeBlock(b) == IF b <= 1 THEN 0 ELSE LayersBeforeBlock(b - 1) + Len(Block(b - 1))

PositionOf(name) == LayersBeforeBlock(layer_map[name][1] + 1) + layer_map[name][2] + 1

VARIABLES
    ls_init,       \* the list given to the constructor
    ls_list,       \* the list last passed to set_layers or returned by get_selected_layers
    ls_self,       \* who bound self.layers: "none" | "init" | "set_layers"
    ls_event,      \* the last operation
    ls_evaluated   \* network layers evaluated by the last forward

lsVars == <<ls_init, ls_list, ls_self, ls_event, ls_evaluated>>

SelectionIdle ==
    /\ ls_init = NoList
    /\ ls_list = NoList
    /\ ls_self = "none"
    /\ ls_event = "none"
    /\ ls_evaluated = 0

\* VGG19FeatureExtractor(layers), with the caller keeping its list.
SelectConstruct ==
    /\ ExtractorInit
    /\ ls_init' = [value |-> fx_last'.arg, origin |-> "init_arg",
                   aliased |-> ~fx_last'.raised /\ InitKeepsReference(fx_last'.arg),
                   changed |-> FALSE]
    /\ ls_list' = NoList
    /\ ls_self' = IF fx_last'.raised THEN "none" ELSE "init"
    /\ ls_event' = "construct"
    /\ ls_evaluated' = 0

\* set_layers(layers), lines 118-131.
SelectSetLayers ==
    /\ SetLayers
    /\ ls_list' = [value |-> fx_last'.arg, origin |-> "set_arg",
                   aliased |-> ~fx_last'.raised /\ ~SetLayersStoresCopy,
                   changed |-> FALSE]
    /\ ls_init' = IF fx_last'.raised THEN ls_init ELSE [ls_init EXCEPT !.aliased = FALSE]
    /\ ls_self' = IF fx_last'.raised THEN ls_self ELSE "set_layers"
    /\ ls_event' = "set_layers"
    /\ UNCHANGED ls_evaluated

\* get_selected_layers(), lines 114-116.
SelectGetSelectedLayers ==
    /\ fx_status = "ready"
    /\ ls_list' = [value |-> fx_layers, origin |-> "get_copy",
                   aliased |-> ~GetSelectedLayersReturnsCopy, changed |-> FALSE]
    /\ fx_last' = [op |-> "get_selected_layers", arg |-> <<>>, raised |-> FALSE]
    /\ ls_event' = "get_selected_layers"
    /\ UNCHANGED <<fx_status, fx_layers, fx_forwards, fx_features, content_layers,
                   style_layers, fx_requires_grad, fx_training, fx_params,
                   ls_init, ls_self, ls_evaluated>>

\* The caller changes the list it passed to set_layers or got back from
\* get_selected_layers.
CallerChangesList ==
    /\ ls_list.origin /= "none"
    /\ \E v \in ChangedLists \ {ls_list.value} :
          /\ ls_list' = [ls_list EXCEPT !.value = v, !.changed = TRUE]
          /\ fx_layers' = IF ls_list.aliased THEN v ELSE fx_layers
    /\ ls_event' = "change_list"
    /\ UNCHANGED <<fx_status, fx_last, fx_forwards, fx_features, content_layers,
                   style_layers, fx_requires_grad, fx_training, fx_params,
                   ls_init, ls_self, ls_evaluated>>

\* The caller changes the list it gave to the constructor.
CallerChangesInitList ==
    /\ fx_status = "ready"
    /\ ls_init.origin /= "none"
    /\ \E v \in ChangedLists \ {ls_init.value} :
          /\ ls_init' = [ls_init EXCEPT !.value = v, !.changed = TRUE]
          /\ fx_layers' = IF ls_init.aliased THEN v ELSE fx_layers
    /\ ls_event' = "change_init_list"
    /\ UNCHANGED <<fx_status, fx_last, fx_forwards, fx_features, content_layers,
                   style_layers, fx_requires_grad, fx_training, fx_params,
                   ls_list, ls_self, ls_evaluated>>

\* forward(x), lines 67-108; line 81 raises KeyError on a selected name the
\* layer map does not have.
SelectForward ==
    /\ IF MissingLayers(fx_layers) = {}
       THEN /\ Forward
            /\ ls_evaluated' = forward(fx_layers).evaluated
       ELSE /\ fx_status = "ready"
            /\ fx_forwards < MaxForwardCalls
            /\ fx_last' = [op |-> "forward", arg |-> fx_layers, raised |-> TRUE]
            /\ ls_evaluated' = 0
            /\ UNCHANGED <<fx_status, fx_layers, fx_forwards, fx_features,
                           content_layers, style_layers, fx_requires_grad,
                           fx_training, fx_params>>
    /\ ls_event' = "forward"
    /\ UNCHANGED <<ls_init, ls_list, ls_self>>

\* ------------------------------------------------- runs seen from outside
\* What a caller of transfer_style can observe of its runs: the calls of a
\* read-only observer, a request to cancel, and the results of the runs made
\* one after the other on the same engine.
MaxRuns == 3

\* The weight overrides of the repeated runs.
RepeatOverrides == {NoWeights, [content |-> Fin(2), style |-> None, tv |-> None]}

VARIABLES
    run_seen,     \* arguments of the observer's calls: [index, canvas, entries]
    run_cancel,   \* k if cancellation was requested before step k, 0 if not
    run_log,      \* finished runs: [inputs, history, canvas]
    run_autograd  \* the arithmetic of backward and LBFGS as met so far:
                  \* pairs <<state the step started from, state it left>>

runVars == <<run_seen, run_cancel, run_log, run_autograd>>

RunsIdle ==
    /\ run_seen = <<>>
    /\ run_cancel = 0
    /\ run_log = <<>>
    /\ run_autograd = {}

\* transfer_style(content, [style], n, callback=observer) with an observer
\* that only reads.
ProgressBegin ==
    /\ pc = "idle"
    /\ \E c \in ContentImages, n \in 0..MaxSteps :
          BeginCall(c, <<StyleA>>, n, NoWeights, "reads")
    /\ UNCHANGED runVars

\* One optimizer.step(closure), lines 211-253. Inside the closure the canvas
\* is clamped (213), the losses are computed and appended (217-243) and the
\* observer is called with step[0], the canvas and the history (246-247);
\* LBFGS changes the canvas after the closure has returned.
ProgressStep ==
    /\ OptimizerStep
    /\ run_seen' =
          IF callback /= "none"
          THEN Append(run_seen,
                      [index   |-> step,
                       canvas  |-> clamp_(input_image),
                       entries |-> Len(HistoryAppend(history, step, num_steps,
                                          Losses(clamp_(input_image), used,
                                                 target_content_features,
                                                 target_avg_grams, content_layers,
                                                 style_layers, fx_layers,
                                                 content_image.dim)).total_loss)])
          ELSE run_seen
    /\ UNCHANGED <<run_cancel, run_log, run_autograd>>

\* Lines 255-259.
ProgressReturn ==
    /\ TransferStyleReturn
    /\ UNCHANGED runVars

\* The caller asks for the run to stop: the request is abandoned, the task
\* awaiting it is cancelled. transfer_style takes no token or event
\* (lines 154-163) and the loop of lines 252-253 tests step[0] alone.
RequestCancel ==
    /\ pc = "loop"
    /\ run_cancel = 0
    /\ run_cancel' = step + 1
    /\ UNCHANGED <<run_seen, run_log, run_autograd, fxVars, engVars>>

\* The inputs of the running call.
RunInputs == [content_image |-> content_image, style_images |-> style_images,
              num_steps |-> num_steps, overrides |-> overrides]

\* transfer_style once more on the same engine.
RepeatBegin ==
    /\ pc \in {"idle", "returned"}
    /\ Len(run_log) < MaxRuns
    /\ \E n \in 1..2, o \in RepeatOverrides :
          BeginCall([dim |-> 2, px |-> Fin(2)], <<StyleA>>, n, o, "none")
    /\ UNCHANGED runVars

\* One step of it. Backward and LBFGS are arithmetic: from the same targets,
\* weights, canvas and optimizer state they leave the same canvas and
\* optimizer state.
RepeatStep ==
    LET before == <<content_image, style_images, used, input_image, lbfgs_n_iter>>
    IN  /\ OptimizerStep
        /\ \A p \in run_autograd :
              p[1] = before => p[2] = <<input_image', lbfgs_n_iter'>>
        /\ run_autograd' = run_autograd \cup {<<before, <<input_image', lbfgs_n_iter'>>>>}
        /\ UNCHANGED <<run_seen, run_cancel, run_log>>

\* It returns; the caller keeps the result.
RepeatReturn ==
    /\ TransferStyleReturn
    /\ run_log' = Append(run_log, [inputs |-> RunInputs, history |-> history,
                                   canvas |-> input_image'])
    /\ UNCHANGED <<run_seen, run_cancel, run_autograd>>

\* --------------------------------------------------------- specifications
vars == <<fxVars, engVars, svcVars, stVars, ccVars, epVars, lsVars, runVars>>

ExtractorNew ==
    /\ fx_status = "none"
    /\ fx_layers = <<>>
    /\ fx_last = NoCall
    /\ fx_forwards = 0
    /\ fx_features = {}
    /\ content_layers = <<>>
    /\ style_layers = <<>>
    /\ fx_requires_grad = TRUE
    /\ fx_training = TRUE
    /\ fx_params = "pretrained"

InitExtractor == ExtractorNew /\ EngineIdle /\ ServiceIdle /\ StatisticsIdle /\ ConcurrentIdle /\ EndpointIdle /\ SelectionIdle /\ RunsIdle

NextExtractor ==
    \/ ExtractorInit /\ UNCHANGED <<engVars, svcVars, stVars, ccVars, epVars, lsVars, runVars>>
    \/ StyleTransferInit /\ UNCHANGED <<engVars, svcVars, stVars, ccVars, epVars, lsVars, runVars>>
    \/ SetLayers /\ UNCHANGED <<engVars, svcVars, stVars, ccVars, epVars, lsVars, runVars>>
    \/ Forward /\ UNCHANGED <<engVars, svcVars, stVars, ccVars, epVars, lsVars, runVars>>

SpecExtractor == InitExtractor /\ [][NextExtractor]_vars

InitEngine == ExtractorReady /\ EngineIdle /\ ServiceIdle /\ StatisticsIdle /\ ConcurrentIdle /\ EndpointIdle /\ SelectionIdle /\ RunsIdle

NextEngine ==
    \/ TransferStyleBegin /\ UNCHANGED <<svcVars, stVars, ccVars, epVars, lsVars, runVars>>
    \/ OptimizerStep /\ UNCHANGED <<svcVars, stVars, ccVars, epVars, lsVars, runVars>>
    \/ TransferStyleReturn /\ UNCHANGED <<svcVars, stVars, ccVars, epVars, lsVars, runVars>>

SpecEngine == InitEngine /\ [][NextEngine]_vars

\* The service as app.py builds it (line 41), under some configuration.
InitService ==
    /\ ExtractorReady
    /\ EngineIdle
    /\ StatisticsIdle
    /\ ConcurrentIdle /\ EndpointIdle /\ SelectionIdle /\ RunsIdle
    /\ \E config \in PostProcessingConfigs : ServiceIdleWith(config)

\* The steps of a request. LocalTransformFinish and the engine's steps follow
\* a transfer_style call that binds; the call of _local_transform does not,
\* so no request reaches them.
NextService ==
    \/ TransformImage /\ UNCHANGED <<stVars, ccVars, epVars, lsVars, runVars>>
    \/ LocalTransformLoad /\ UNCHANGED <<stVars, ccVars, epVars, lsVars, runVars>>
    \/ LocalTransformCallEngine /\ UNCHANGED <<stVars, ccVars, epVars, lsVars, runVars>>
    \/ OtherRequestArrives /\ UNCHANGED <<stVars, ccVars, epVars, lsVars, runVars>>
    \/ OtherRequestAccepted /\ UNCHANGED <<stVars, ccVars, epVars, lsVars, runVars>>

SpecService == InitService /\ [][NextService]_vars

InitStatistics == ExtractorReady /\ EngineIdle /\ ServiceIdle /\ StatisticsIdle /\ ConcurrentIdle /\ EndpointIdle /\ SelectionIdle /\ RunsIdle

NextStatistics ==
    \/ GramCall /\ UNCHANGED <<fxVars, engVars, svcVars, ccVars, epVars, lsVars, runVars>>
    \/ AverageStyleGrams /\ UNCHANGED <<fxVars, engVars, svcVars, ccVars, epVars, lsVars, runVars>>

SpecStatistics == InitStatistics /\ [][NextStatistics]_vars

\* An engine object over its life: construction, set_layers and forward on
\* its extractor, and transfer_style calls. The caller is one thread, so no
\* other call runs while transfer_style is in its loop.
InitLifecycle == ExtractorNew /\ EngineIdle /\ ServiceIdle /\ StatisticsIdle /\ ConcurrentIdle /\ EndpointIdle /\ SelectionIdle /\ RunsIdle

NextLifecycle ==
    \/ ExtractorInit /\ pc /= "loop" /\ UNCHANGED <<engVars, svcVars, stVars, ccVars, epVars, lsVars, runVars>>
    \/ StyleTransferInit /\ pc /= "loop" /\ UNCHANGED <<engVars, svcVars, stVars, ccVars, epVars, lsVars, runVars>>
    \/ SetLayers /\ pc /= "loop" /\ UNCHANGED <<engVars, svcVars, stVars, ccVars, epVars, lsVars, runVars>>
    \/ Forward /\ pc /= "loop" /\ UNCHANGED <<engVars, svcVars, stVars, ccVars, epVars, lsVars, runVars>>
    \/ TransferStyleOnObject /\ UNCHANGED <<svcVars, stVars, ccVars, epVars, lsVars, runVars>>
    \/ OptimizerStep /\ UNCHANGED <<svcVars, stVars, ccVars, epVars, lsVars, runVars>>
    \/ TransferStyleReturn /\ UNCHANGED <<svcVars, stVars, ccVars, epVars, lsVars, runVars>>

SpecLifecycle == InitLifecycle /\ [][NextLifecycle]_vars

\* transfer_style runs under observers that read or write what they get.
NextObserved ==
    \/ TransferStyleObserved /\ UNCHANGED <<svcVars, stVars, ccVars, epVars, lsVars, runVars>>
    \/ OptimizerStep /\ UNCHANGED <<svcVars, stVars, ccVars, epVars, lsVars, runVars>>
    \/ TransferStyleReturn /\ UNCHANGED <<svcVars, stVars, ccVars, epVars, lsVars, runVars>>

SpecObserved == InitEngine /\ [][NextObserved]_vars

\* Two clients whose requests are inside transfer_style at the same time, in
\* any interleaving of their steps.
InitConcurrent == ExtractorReady /\ EngineIdle /\ ServiceIdle /\ StatisticsIdle /\ ConcurrentIdle /\ EndpointIdle /\ SelectionIdle /\ RunsIdle

NextConcurrent ==
    \/ \E r \in Calls : ConcurrentBegin(r) /\ UNCHANGED <<svcVars, stVars, epVars, lsVars, runVars>>
    \/ \E r \in Calls : ConcurrentStep(r) /\ UNCHANGED <<svcVars, stVars, epVars, lsVars, runVars>>
    \/ \E r \in Calls : ConcurrentReturn(r) /\ UNCHANGED <<svcVars, stVars, epVars, lsVars, runVars>>

SpecConcurrent == InitConcurrent /\ [][NextConcurrent]_vars

\* One /transform request from the form to the response, for every model
\* choice and every outcome of the gateway, the downloads and the backend.
InitEndpoint ==
    ExtractorReady /\ EngineIdle /\ ServiceIdle /\ StatisticsIdle /\ ConcurrentIdle /\ EndpointIdle /\ SelectionIdle /\ RunsIdle

NextEndpoint ==
    \/ EndpointTransform /\ UNCHANGED <<fxVars, engVars, svcVars, stVars, ccVars, lsVars, runVars>>
    \/ EndpointDispatch /\ UNCHANGED <<fxVars, engVars, svcVars, stVars, ccVars, lsVars, runVars>>
    \/ EndpointSaveStyleUpload /\ UNCHANGED <<fxVars, engVars, svcVars, stVars, ccVars, lsVars, runVars>>
    \/ EndpointDownload /\ UNCHANGED <<fxVars, engVars, svcVars, stVars, ccVars, lsVars, runVars>>
    \/ EndpointRunBackend /\ UNCHANGED <<fxVars, engVars, svcVars, stVars, ccVars, lsVars, runVars>>

SpecEndpoint == InitEndpoint /\ [][NextEndpoint]_vars

\* An extractor and a caller that keeps and changes the lists it exchanged
\* with it.
InitSelection ==
    ExtractorNew /\ EngineIdle /\ ServiceIdle /\ StatisticsIdle /\ ConcurrentIdle /\ EndpointIdle /\ SelectionIdle /\ RunsIdle

NextSelection ==
    \/ SelectConstruct /\ UNCHANGED <<engVars, svcVars, stVars, ccVars, epVars, runVars>>
    \/ SelectSetLayers /\ UNCHANGED <<engVars, svcVars, stVars, ccVars, epVars, runVars>>
    \/ SelectGetSelectedLayers /\ UNCHANGED <<engVars, svcVars, stVars, ccVars, epVars, runVars>>
    \/ CallerChangesList /\ UNCHANGED <<engVars, svcVars, stVars, ccVars, epVars, runVars>>
    \/ CallerChangesInitList /\ UNCHANGED <<engVars, svcVars, stVars, ccVars, epVars, runVars>>
    \/ SelectForward /\ UNCHANGED <<engVars, svcVars, stVars, ccVars, epVars, runVars>>

SpecSelection == InitSelection /\ [][NextSelection]_vars

\* A run with a read-only observer and a caller that may ask it to stop.
InitProgress ==
    ExtractorReady /\ EngineIdle /\ ServiceIdle /\ StatisticsIdle /\ ConcurrentIdle /\ EndpointIdle /\ SelectionIdle /\ RunsIdle

NextProgress ==
    \/ ProgressBegin /\ UNCHANGED <<svcVars, stVars, ccVars, epVars, lsVars>>
    \/ ProgressStep /\ UNCHANGED <<svcVars, stVars, ccVars, epVars, lsVars>>
    \/ ProgressReturn /\ UNCHANGED <<svcVars, stVars, ccVars, epVars, lsVars>>
    \/ RequestCancel /\ UNCHANGED <<svcVars, stVars, ccVars, epVars, lsVars>>

SpecProgress == InitProgress /\ [][NextProgress]_vars

\* Up to MaxRuns runs, one after the other, on the engine of the service.
InitRepeat ==
    ExtractorReady /\ EngineIdle /\ ServiceIdle /\ StatisticsIdle /\ ConcurrentIdle /\ EndpointIdle /\ SelectionIdle /\ RunsIdle

NextRepeat ==
    \/ RepeatBegin /\ UNCHANGED <<svcVars, stVars, ccVars, epVars, lsVars>>
    \/ RepeatStep /\ UNCHANGED <<svcVars, stVars, ccVars, epVars, lsVars>>
    \/ RepeatReturn /\ UNCHANGED <<svcVars, stVars, ccVars, epVars, lsVars>>

SpecRepeat == InitRepeat /\ [][NextRepeat]_vars

\* ------------------------------------------------------------------ claims
HistoryLengths(h) ==
    {Len(h.content_loss), Len(h.style_loss), Len(h.tv_loss), Len(h.total_loss)}

EntryIsNaN(h, i) ==
    /\ IsNaN(h.content_loss[i])
    /\ IsNaN(h.style_loss[i])
    /\ IsNaN(h.tv_loss[i])
    /\ IsNaN(h.total_loss[i])

EntryIsReal(h, i) ==
    /\ IsFinite(h.content_loss[i])
    /\ IsFinite(h.style_loss[i])
    /\ IsFinite(h.tv_loss[i])
    /\ IsFinite(h.total_loss[i])

\* C1: a run with step count N performs exactly N optimizer steps, one at
\* a time. The counter, the closure evaluations and the optimizer steps rise
\* together by one; the loss a step records is the loss of the clamped canvas
\* the step before left; at the return all three equal N; and a run inside the
\* loop can always take its next step or return, so that after at most N
\* steps it has returned.
C1_ExactlyNStepsThenReturn ==
    /\ [](pc = "returned" =>
             /\ step = num_steps
             /\ evals = num_steps
             /\ opt_steps = num_steps)
    /\ [](pc = "loop" => step <= num_steps /\ evals = step /\ opt_steps = step)
    /\ [][(pc = "loop" /\ step' /= step) =>
             /\ step' = step + 1
             /\ evals' = evals + 1
             /\ opt_steps' = opt_steps + 1
             /\ Len(history'.total_loss) = step'
             /\ history'.total_loss[step'] =
                   Losses(clamp_(input_image), used, target_content_features,
                          target_avg_grams, content_layers, style_layers,
                          fx_layers, content_image.dim).total_loss]_vars
    /\ [](pc = "loop" =>
             \/ ~LoopContinues(step, num_steps)
             \/ \E g \in Gradients(clamp_(input_image)) :
                   LBFGSStep(clamp_(input_image), g, lbfgs_n_iter) /= {})

C1_Witness == pc = "returned" /\ num_steps >= 2 /\ opt_steps = num_steps

\* C2: when transfer_style has returned, each of the four history sequences
\* has exactly num_steps entries, also after a non-finite gradient.
C2_HistoryLengthIsStepCount ==
    pc = "returned" => HistoryLengths(history) = {num_steps}

C2_Witness ==
    /\ pc = "returned"
    /\ num_steps >= 2
    /\ nonfinite_step /= 0
    /\ nonfinite_step < num_steps
    /\ HistoryLengths(history) = {num_steps}

\* C3: after a non-finite gradient at step k no update is applied at step k
\* or later, the run steps no further, and the canvas stays (and is returned
\* as) the canvas step k started from.
C3_AbortKeepsLastValidCanvas ==
    (pc \in {"loop", "returned"} /\ nonfinite_step /= 0) =>
        /\ step = nonfinite_step
        /\ input_image = last_valid

\* C4: in the returned history of a run with a non-finite gradient at step k,
\* every entry after step k is NaN and every entry before step k is a real
\* loss value.
C4_TrailingEntriesAreNaN ==
    (pc = "returned" /\ nonfinite_step /= 0) =>
        \A i \in 1..Len(history.total_loss) :
            /\ i > nonfinite_step => EntryIsNaN(history, i)
            /\ i < nonfinite_step => EntryIsReal(history, i)

\* C5: after every optimizer update and in the returned result the canvas
\* lies in [0, 1].
C5_CanvasInRangeAfterEveryStep ==
    (pc \in {"loop", "returned"} /\ opt_steps >= 1) => InRange(input_image)

\* C6: a call with an empty style list raises the validation error with no
\* extractor pass, no step, no history entry and no observer call.
C6_EmptyStyleListFailsFast ==
    (pc /= "idle" /\ Len(style_images) = 0) =>
        /\ pc = "raised"
        /\ err = "ValueError"
        /\ run_forwards = 0
        /\ step = 0
        /\ evals = 0
        /\ opt_steps = 0
        /\ cb_calls = 0
        /\ history = EmptyHistory

C6_Witness ==
    pc = "raised" /\ Len(style_images) = 0 /\ callback /= "none" /\ num_steps > 0

\* C7: the extractor only ever selects catalog names; a construction or a
\* set_layers call raises exactly when it is asked for a name outside the
\* catalog; a raising call computes no forward pass and no extractor exists
\* after a failed construction.
C7_LayerNamesValidated ==
    /\ [](fx_status = "ready" => SeqRange(fx_layers) \subseteq Catalog)
    /\ [](fx_last.op \in {"init", "style_transfer_init", "set_layers"} =>
             (fx_last.raised <=> SeqRange(fx_last.arg) \ Catalog /= {}))
    /\ [](fx_status /= "ready" => fx_forwards = 0)
    /\ [][(fx_last' /= fx_last /\ fx_last'.raised) =>
             fx_forwards' = 0 \/ fx_forwards' = fx_forwards]_vars

C7_Witness ==
    /\ fx_status = "ready"
    /\ fx_last.op = "set_layers"
    /\ fx_last.raised
    /\ invalid_layer \in SeqRange(fx_last.arg)
    /\ fx_forwards > 0

\* C8: a call in which a style reference has other dimensions than the
\* content image raises the validation error before any extractor pass.
C8_MismatchedDimensionsRejected ==
    (pc /= "idle" /\ \E i \in 1..Len(style_images) :
                        style_images[i].dim /= content_image.dim) =>
        /\ pc = "raised"
        /\ err = "ValueError"
        /\ run_forwards = 0

\* C9: every recorded total loss is the weighted sum of the three recorded
\* losses, each weight being the override when it is not None and the
\* engine's own weight otherwise.
C9_OverrideWeightsUsed ==
    \A i \in 1..Len(history.total_loss) :
        history.total_loss[i] =
            WeightedTotal([content |-> IfNotNone(overrides.content, weights.content),
                           style   |-> IfNotNone(overrides.style, weights.style),
                           tv      |-> IfNotNone(overrides.tv, weights.tv)],
                          history.content_loss[i], history.style_loss[i],
                          history.tv_loss[i])

\* C10: a local request whose style images were loaded ends with a returned
\* parameters_used record whose weights and step count are the ones the
\* engine used.
C10_ParametersUsedEchoEngine ==
    (svc_pc \in {"returned", "raised"} /\ style_loaded > 0) =>
        /\ svc_pc = "returned"
        /\ parameters_used.content_weight = used.content
        /\ parameters_used.style_weight = used.style
        /\ parameters_used.tv_weight = used.tv
        /\ parameters_used.num_steps = Fin(num_steps)

\* C11: for a non-empty list of references the averaged Gram matrix of a
\* layer is the element-wise mean of the references' Gram matrices: with two
\* references (G1 + G2) / 2, and with identical references their one matrix.
C11_ProfileIsElementwiseMean ==
    st_pc = "averaged" =>
        /\ Len(st_in) > 0
        /\ DOMAIN st_avg = DOMAIN st_grams[1]
        /\ \A k \in DOMAIN st_avg : \A i \in DOMAIN st_avg[k] : \A j \in DOMAIN st_avg[k][i] :
              /\ RatEq(Rat(st_avg[k][i][j][1] * Len(st_in), st_avg[k][i][j][2]),
                       RatSum([n \in 1..Len(st_in) |-> st_grams[n][k][i][j]]))
              /\ Len(st_in) = 2 =>
                    RatEq(st_avg[k][i][j],
                          RatDiv(RatAdd(st_grams[1][k][i][j], st_grams[2][k][i][j]), 2))
              /\ (\A n \in 1..Len(st_in) : st_in[n] = st_in[1]) =>
                    RatEq(st_avg[k][i][j], st_grams[1][k][i][j])

C11_Witness ==
    /\ st_pc = "averaged"
    /\ Len(st_in) = 2
    /\ st_in[1].c = 2
    /\ ~RatEq(st_grams[1][1][1][2], st_grams[2][1][1][2])
    /\ st_avg[1][1][2][1] /= 0

\* C12: for a feature tensor of shape b x c x h x w gram_matrix returns, for
\* each batch element, the c x c matrix whose entry (i, j) is the inner
\* product of channels i and j over the h*w positions divided by c*h*w, and
\* the matrix equals its transpose.
C12_GramIsNormalisedAndSymmetric ==
    st_pc = "gram" =>
        LET t == st_in[1]
            g == st_grams[1]
        IN  /\ DOMAIN g = 1..t.b
            /\ \A k \in 1..t.b :
                  /\ DOMAIN g[k] = 1..t.c
                  /\ \A i \in 1..t.c :
                        /\ DOMAIN g[k][i] = 1..t.c
                        /\ \A j \in 1..t.c :
                              /\ RatEq(g[k][i][j],
                                       Rat(IntSum([p \in 1..(t.h * t.w) |->
                                                      t.data[k][i][p] * t.data[k][j][p]]),
                                           t.c * t.h * t.w))
                              /\ g[k][i][j] = g[k][j][i]

C12_Witness ==
    /\ st_pc = "gram"
    /\ st_in[1].b = 2
    /\ st_in[1].c = 2
    /\ st_in[1].h * st_in[1].w = 2
    /\ st_grams[1][2][1][2][1] /= 0
    /\ st_grams[1][1] /= st_grams[1][2]

\* C13: once the extractor is constructed, whatever forward, set_layers and
\* transfer_style calls follow, no parameter of the network requires a
\* gradient, the parameters keep their pretrained values and the network is
\* in inference mode.
C13_NetworkFrozen ==
    fx_status = "ready" =>
        /\ ~fx_requires_grad
        /\ ~fx_training
        /\ fx_params = "pretrained"

C13_Witness ==
    /\ fx_status = "ready"
    /\ pc = "returned"
    /\ opt_steps >= 1
    /\ fx_forwards >= 1
    /\ fx_last.op = "set_layers"

\* C14: in a run that reached its loop the targets were computed with one
\* extractor pass over the content image and one over each style reference,
\* and they still are what was computed then.
C14_TargetsComputedOnce ==
    pc \in {"loop", "returned"} =>
        /\ run_forwards - evals = 1 + Len(style_images)
        /\ target_content_features = Features(content_layers, content_image.px)
        /\ target_avg_grams = average_style_grams(style_images, style_layers)

\* C15: whatever the observer does with its arguments, a step leaves the
\* history and the canvas that the same step leaves without an observer: the
\* history grows by the step's own losses and the optimizer moves the canvas
\* the closure evaluated.
C15_ObserverCannotAlterEngine ==
    [][(pc = "loop" /\ step' = step + 1) =>
          /\ history' =
                HistoryAppend(history, step, num_steps,
                              Losses(clamp_(input_image), used, target_content_features,
                                     target_avg_grams, content_layers, style_layers,
                                     fx_layers, content_image.dim))
          /\ \E g \in Gradients(clamp_(input_image)) :
                input_image' \in LBFGSStep(clamp_(input_image), g, lbfgs_n_iter)]_vars

\* The stages of the enhancement chain in the order the spec fixes.
StageOrder == <<"unsharp_mask", "clahe_contrast", "saturation_boost">>

StageFlag(flags, name) ==
    IF name = "unsharp_mask" THEN flags.usm
    ELSE IF name = "clahe_contrast" THEN flags.clahe ELSE flags.sat

\* C16: in a finished local request whose style images were loaded, a stage
\* has run on the final image exactly if its resolved flag is true, the
\* stages that ran did so in the order sharpen, contrast, saturation, and
\* none ran before the optimization had returned.
C16_StagesFollowFlagsInOrder ==
    (svc_pc \in {"returned", "raised"} /\ style_loaded > 0) =>
        LET flags == ResolvedFlags(request, pp_config)
            ran   == final_image.stages
        IN  /\ \A i \in 1..Len(StageOrder) :
                  StageFlag(flags, StageOrder[i]) <=> StageOrder[i] \in SeqRange(ran)
            /\ \A i \in 1..Len(ran) : \A j \in (i + 1)..Len(ran) :
                  \E a \in 1..Len(StageOrder) : \E b \in (a + 1)..Len(StageOrder) :
                      ran[i] = StageOrder[a] /\ ran[j] = StageOrder[b]
            /\ ran /= <<>> => pc = "returned"

\* C17: in a finished local request whose style images were loaded and whose
\* three resolved flags are all false, the chain has produced an image and it
\* is the image converted from the synthesis output, with nothing applied.
C17_AllDisabledIsIdentity ==
    (/\ svc_pc \in {"returned", "raised"}
     /\ style_loaded > 0
     /\ ResolvedFlags(request, pp_config) = NoPostProcessing) =>
        final_image = TensorToImage(input_image)

\* C19: while a request is at or inside its transfer_style call, the event
\* loop is free, so that a waiting second request can be accepted.
C19_LoopRunsOffTheEventLoop ==
    (svc_pc \in {"engine_call", "synthesis"} /\ other_request = "pending") =>
        event_loop = "free"

\* C20: a local_vgg request whose style images were loaded ends with status
\* 200 and a returned result, after the engine accepted the call and ran.
C20_LocalRequestSucceeds ==
    (svc_pc \in {"returned", "raised"} /\ style_loaded > 0) =>
        /\ http_status = 200
        /\ svc_pc = "returned"
        /\ pc = "returned"

\* C18: in every interleaving of two concurrent calls, a step changes only
\* the canvas, optimizer state, counter and history of the call that takes
\* it; two calls in progress never hold the same counter; and no step
\* changes the shared extractor or the engine's own fields.
C18_RequestsIsolated ==
    [][/\ \A r \in Calls : r /= cc_actor' => OwnState(r)' = OwnState(r)
       /\ \A r1, r2 \in Calls :
             (r1 /= r2 /\ cc_frames'[r1].pc /= "idle" /\ cc_frames'[r2].pc /= "idle")
                => cc_frames'[r1].step /= cc_frames'[r2].step
       /\ UNCHANGED <<fxVars, engVars>>]_vars

\* Both calls are in their loop, each has taken one step and has one to go.
C18_Witness ==
    \A r \in Calls :
        /\ cc_frames[r].pc = "loop"
        /\ cc_frames[r].num_steps = 2
        /\ cc_cells[cc_frames[r].step] = 1
        /\ Len(cc_frames[r].history.total_loss) = 1

\* A form names exactly one style source.
ExactlyOneStyleSource(r) ==
    \/ r.period_id /= None /\ r.category_id /= None /\ ~r.local_style_image_file
    \/ r.local_style_image_file /\ r.period_id = None /\ r.category_id = None

\* C21: a request that does not name exactly one style source is answered
\* 422 with no content file written and no branch of transform_image taken;
\* a request that names exactly one is never answered 422.
C21_OneStyleSourceOrRejected ==
    ep_pc /= "idle" =>
        IF ExactlyOneStyleSource(ep_req)
        THEN ep_status /= 422
        ELSE /\ ep_status = 422
             /\ ep_content = "none"
             /\ ep_backend = "none"
             /\ ep_temp = {}

\* A request with both a local style file and a period id has been rejected.
C21_Witness ==
    /\ ep_pc = "responded"
    /\ ep_status = 422
    /\ ep_req.local_style_image_file
    /\ ep_req.period_id /= None

OtherMode(mode) == IF mode = "local" THEN "cloud" ELSE "local"

\* C27: the backend a dispatched request is routed to differs from the one
\* the same request would be routed to with the other processing mode.
C27_ModeSelectsBackend ==
    ep_backend /= "none" =>
        ep_backend /= Route(OtherMode(ep_req.processing_mode), ep_req.ai_model_choice)

\* C29: once the request has been answered, none of the files it created in
\* the temporary style directory is left on disk.
C29_NoTempFileLeft ==
    ep_pc = "responded" => ep_temp = {}

\* The value the precedence override, configuration, default gives a flag.
ByPrecedence(override, configured) ==
    IF override = BoolOf(TRUE) THEN TRUE
    ELSE IF override = BoolOf(FALSE) THEN FALSE ELSE configured

\* C28: a finished local request whose style images were loaded reports, for
\* each stage, the flag its override gives if there is one, false over a
\* configured true included, and the configured value otherwise.
C28_OverrideThenConfigThenDefault ==
    (svc_pc \in {"returned", "raised"} /\ style_loaded > 0) =>
        /\ svc_pc = "returned"
        /\ parameters_used.post_processing_applied.usm =
              ByPrecedence(request.usm_enabled, pp_config.usm)
        /\ parameters_used.post_processing_applied.clahe =
              ByPrecedence(request.clahe_enabled, pp_config.clahe)
        /\ parameters_used.post_processing_applied.sat =
              ByPrecedence(request.saturation_enabled, pp_config.sat)

\* C22: after a forward over a selection whose names are all in the catalog,
\* the keys of the returned mapping are exactly the selected layers, whether
\* the selection comes from the constructor or from set_layers.
C22_ForwardKeysAreSelection ==
    (ls_event = "forward" /\ MissingLayers(fx_layers) = {}) =>
        /\ ~fx_last.raised
        /\ fx_features = SeqRange(fx_layers)

\* A forward over a two-layer selection installed by set_layers.
C22_Witness ==
    /\ fx_last.op = "forward"
    /\ ls_self = "set_layers"
    /\ ls_event = "forward"
    /\ fx_layers = <<conv4_2, conv1_1>>
    /\ fx_features = {conv1_1, conv4_2}

\* The position of the deepest selected layer.
DeepestPosition(layers) ==
    CHOOSE p \in {PositionOf(n) : n \in SeqRange(layers)} :
        \A n \in SeqRange(layers) : PositionOf(n) <= p

\* C26: a forward over a non-empty valid selection evaluates the network up
\* to the deepest selected layer and no layer after it.
C26_StopsAtDeepestLayer ==
    (ls_event = "forward" /\ ~fx_last.raised /\ fx_layers /= <<>>) =>
        ls_evaluated = DeepestPosition(fx_layers)

\* C30: a set_layers call that raises leaves the selection as it was; a
\* change the caller makes to a list it passed to set_layers or got from
\* get_selected_layers leaves the selection as it was; and as long as the
\* caller has left the constructor's list alone, every selected layer is in
\* the catalog.
C30_SelectionOwnedByExtractor ==
    [][/\ (ls_event' = "set_layers" /\ fx_last'.raised) => fx_layers' = fx_layers
       /\ ls_event' = "change_list" => fx_layers' = fx_layers
       /\ (fx_status' = "ready" /\ ~ls_init'.changed) => MissingLayers(fx_layers') = {}]_vars

\* The caller has put an unknown name into the list it passed to a
\* successful set_layers.
C30_Witness ==
    /\ ls_event = "change_list"
    /\ ls_list.origin = "set_arg"
    /\ ls_self = "set_layers"
    /\ ~fx_last.raised
    /\ invalid_layer \in SeqRange(ls_list.value)
    /\ fx_layers = <<conv1_1, conv4_2>>

C24_NoStepAfterCancel ==
    run_cancel /= 0 => step < run_cancel

\* C25: in a run whose gradients were all finite, the observer has been
\* called once per executed step, with
\* increasing indices and a history of as many entries as steps executed at
\* the time, and the canvas of its last call is the clamped canvas the
\* update of that step produced.
C25_ObserverSeesUpdatedCanvas ==
    (callback /= "none" /\ pc \in {"loop", "returned"} /\ nonfinite_step = 0) =>
        /\ Len(run_seen) = step
        /\ \A i \in 1..Len(run_seen) : run_seen[i].entries = i
        /\ \A i \in 1..(Len(run_seen) - 1) : run_seen[i + 1].index = run_seen[i].index + 1
        /\ run_seen /= <<>> => run_seen[Len(run_seen)].canvas = clamp_(input_image)

====
